---- MODULE Spec2Model ----
(***************************************************************************)
(* Session/transport manager of the mermaid MCP HTTP servers.              *)
(*                                                                         *)
(* Two programs share the streamable session logic and are modelled        *)
(* together: services/streamable.ts (startHTTPStreamableServer) and        *)
(* services/unifiedServer.ts (startUnifiedMcpServer).  The variable        *)
(* `variant` says which of the two is running; the actions branch on it    *)
(* only where the two sources differ.                                      *)
(*                                                                         *)
(* JavaScript runs every handler atomically between two awaits, so every   *)
(* action below is one such segment: from the handler's entry (or the      *)
(* resumption of an await) to its next await or return.                    *)
(*                                                                         *)
(* The transport and the protocol server are objects of the MCP SDK.  The  *)
(* program only sees their interface; the steps they take (signalling      *)
(* onsessioninitialized, signalling close, answering or failing a          *)
(* forwarded request, settling server.close()) are the environment         *)
(* actions of this model and are nondeterministic.                         *)
(*                                                                         *)
(* Specifications:                                                         *)
(*   Spec, FairSpec      the streamable endpoint: POST, GET, DELETE and    *)
(*                       the two transport callbacks;                      *)
(*   InitializeSpec      the POST handler together with the settling of    *)
(*                       the connect promise the initialize branch drops;  *)
(*   RenderSpec          POST /render of the streamable server;            *)
(*   RouterSpec          the classification of a request by method and     *)
(*                       url, while sessions are opened and closed;        *)
(*   SseSpec,            the SSE endpoints of the unified server;          *)
(*   FairSseSpec                                                           *)
(*   ShutdownSpec,       sessions opened on both endpoints, followed by    *)
(*   FairShutdownSpec    the cleanup sweep.                                *)
(* The handlers of the different endpoints share no state but the two      *)
(* registries, so each specification leaves the others' variables alone.   *)
(***************************************************************************)
EXTENDS Integers, FiniteSets, Sequences, TLC

\* ------------------------------------------------------------------ bounds
\* Number of HTTP requests a behaviour contains (request slots 1..MaxReq).
MaxReq == 2
\* Number of close signals the transports raise in a behaviour, all together.
MaxClose == 2

\* --------------------------------------------------------------- constants
\* Value of the mcp-session-id header when it is absent (or empty): falsy.
NoSid == 0
\* JSON-RPC error code of "no valid session".
NoValidSession == -32000
\* JSON-RPC error code of an internal failure.
InternalError == -32603
\* Status carried by a Response object thrown by createServer.
ThrownStatus == 503

Req == 1..MaxReq
\* Pool the session ids are drawn from; one id per request is enough for
\* randomUUID never to run out.
SessionIds == 1..MaxReq
\* Parsed request bodies, as isInitializeRequest sees them.
Bodies == {"initialize", "other"}
Variants == {"streamable", "unified"}

VARIABLES
    variant,            \* which server program is running
    reqs,               \* the HTTP requests: headers, handler position, response
    activeTransports,   \* the registry: session id -> {server, transport}
    transports,         \* the transports created so far, one per initialize request
    servers,            \* the per-session servers created so far
    render,             \* the POST /render exchange: inputs, position, response
    routed,             \* the request the router classified last, and its route
    activeSSETransports,\* the SSE registry: session id -> transport
    sseReqs,            \* the SSE requests: connections and posted messages
    sweep               \* the cleanup sweep: whether it ran, what it closed

\* The state of the streamable sessions, and that of the SSE sessions.
streamableVars == <<reqs, activeTransports, transports, servers>>
sseVars == <<activeSSETransports, sseReqs>>

vars == <<variant, streamableVars, render, routed, sseVars, sweep>>

\* What the streamable handlers and the transport callbacks never touch.
others == <<render, routed, sseVars, sweep>>

\* ------------------------------------------------------------ response bodies
NoBody == [jsonrpc |-> "", id |-> "", code |-> 0, message |-> ""]
JsonRpcError(code, message) ==
    [jsonrpc |-> "2.0", id |-> "null", code |-> code, message |-> message]
Text(message) == [jsonrpc |-> "", id |-> "", code |-> 0, message |-> message]

\* The controller's answers on the streamable endpoint: <<status, body>>.
\* The rejection with the code of the internal failure.
NoValidSessionReplyWrongCode ==
    <<400, JsonRpcError(InternalError, "Bad Request: No valid session ID provided")>>
\* POST, no usable session: streamable.ts 208-218, unifiedServer.ts 259-269.
NoValidSessionReply ==
    <<400, JsonRpcError(NoValidSession, "Bad Request: No valid session ID provided")>>
\* POST, outer catch: streamable.ts 227-234, unifiedServer.ts 276-283.
InternalErrorReply ==
    <<500, JsonRpcError(InternalError, "Internal Server Error")>>
\* GET without a session id header.
GetNoSessionIdReply == <<400, Text("No sessionId")>>
\* DELETE without a session id header.
DeleteNoSessionIdReply == <<400, Text("Invalid or missing sessionId")>>
\* GET or DELETE with an id that is not in the registry.
NoActiveTransportReply == <<400, Text("No active transport")>>
\* DELETE, catch around transport.handleRequest.
DeleteFailureReply == <<500, Text("Error handling delete request")>>
\* unifiedServer.ts, catch around createServer: a thrown Response, or anything else.
CreateServerResponseReply == <<ThrownStatus, Text("statusText")>>
CreateServerFailureReply == <<500, Text("Error creating server")>>

\* ------------------------------------------------------------------ registry
NoEntry == [server |-> 0, transport |-> 0]
Registered(id) == id # NoSid /\ activeTransports[id] # NoEntry
RegistryKeys == {id \in SessionIds : activeTransports[id] # NoEntry}

\* --------------------------------------------------------------- requests
IdleReq ==
    [method |-> "", sid |-> NoSid, body |-> "", lastEventId |-> FALSE,
     pc |-> "idle", branch |-> "", fwd |-> 0, status |-> 0, resp |-> NoBody,
     writer |-> "none", escaped |-> FALSE]

\* Of a transport: its session id, the close signals it raised, the onclose
\* calls suspended at their await, whether an onclose logged a failure of
\* server.close(), and whether an onclose let one escape.
NoTransport ==
    [state |-> "none", sessionId |-> NoSid, closeSignals |-> 0, closing |-> 0,
     logged |-> FALSE, threw |-> FALSE]
\* Of a server: the calls of connect and close, whether a close rejected, and
\* the promise server.connect(transport) returned: "none" before the call,
\* then "pending" until it settles as "resolved" or "rejected".
NoServer ==
    [state |-> "none", connects |-> 0, closes |-> 0, closeRejected |-> FALSE,
     connect |-> "none"]

\* ------------------------------------------------------------- the router
NotRouted == [method |-> "", url |-> <<>>, route |-> "", status |-> 0, text |-> ""]

\* ------------------------------------------------------- the SSE requests
\* A slot holds a connection (GET on the SSE endpoint) or a posted message.
\* Of a connection: the transport's session id, the closure variable
\* `closed`, whether res.end() was called, the close listeners awaiting
\* server.close(), and the state of its server.  Of a posted message: the
\* sessionId query parameter, the mcp-session-id header, the transport it
\* was forwarded to.
IdleSse ==
    [kind |-> "", pc |-> "idle", query |-> NoSid, header |-> NoSid,
     sessionId |-> NoSid, closed |-> FALSE, ended |-> FALSE, closing |-> 0,
     server |-> "none", serverCloses |-> 0, fwd |-> 0, status |-> 0,
     text |-> "", escaped |-> FALSE, logged |-> {}]

\* ------------------------------------------------------- the cleanup sweep
\* Whether cleanup ran, the transports it called close() on, and those
\* whose close() threw; a transport is <<"sse", slot>> or <<"streamable", slot>>.
NotSwept == [ran |-> FALSE, closeCalled |-> {}, closeThrew |-> {}]

\* ---------------------------------------------------- the /render exchange
\* JavaScript values of the body's fields.
Undefined == [type |-> "undefined", chars |-> <<>>]
Number == [type |-> "number", chars |-> <<>>]
Str(chars) == [type |-> "string", chars |-> chars]

\* Response bodies of /render, as the object given to JSON.stringify.
NoRenderBody ==
    [error |-> "", mermaid |-> <<>>, svg |-> "", url |-> "", fileId |-> "",
     mimeType |-> ""]
RenderError(message) == [NoRenderBody EXCEPT !.error = message]

IdleRender ==
    [pc |-> "idle", authorization |-> <<>>, token |-> <<>>,
     raw |-> [isString |-> FALSE, syntaxError |-> FALSE,
              value |-> [type |-> "null", mermaid |-> Undefined,
                         outputType |-> Undefined]],
     getBodyCalls |-> 0, parsed |-> FALSE, renderMermaidCalls |-> 0,
     screenshot |-> "", storageArg |-> <<>>, uploadAuthorization |-> <<>>,
     storeFileCalls |-> 0,
     logged |-> FALSE, status |-> 0, resp |-> NoRenderBody]

Init ==
    /\ variant \in Variants
    /\ reqs = [r \in Req |-> IdleReq]
    /\ activeTransports = [id \in SessionIds |-> NoEntry]
    /\ transports = [t \in Req |-> NoTransport]
    /\ servers = [s \in Req |-> NoServer]
    /\ render = IdleRender
    /\ routed = NotRouted
    /\ activeSSETransports = [id \in SessionIds |-> 0]
    /\ sseReqs = [c \in Req |-> IdleSse]
    /\ sweep = NotSwept

\* The next free request slot: requests are numbered in order of arrival.
NextSlot(r) == reqs[r].pc = "idle" /\ \A q \in Req : q < r => reqs[q].pc # "idle"

\* The controller answers the request itself and the handler returns.
Reply(rec, answer) ==
    [rec EXCEPT !.pc = "done", !.status = answer[1], !.resp = answer[2],
                !.writer = "controller"]

\* The controller hands request r to transport t and awaits handleRequest.
Forward(rec, t, branch) ==
    [rec EXCEPT !.pc = "handling", !.fwd = t, !.branch = branch]

\* ------------------------------------------------- collaborators' interfaces
\* isInitializeRequest of the SDK, on the parsed body.
isInitializeRequest(body) == body = "initialize"

\* What a call of createServer can do: return a fresh server, throw an Error,
\* or throw a Response object (unifiedServer.ts tells the two apart).
createServerOutcomes == {"ok", "throwError", "throwResponse"}

\* Session ids handed out so far.
UsedIds == {transports[t].sessionId : t \in Req} \ {NoSid}

\* A generator that hands out one fixed id, as a transport with a constant
\* sessionId would.
fixedSessionId(used) == {1}

\* sessionIdGenerator: the id randomUUID returns, given the ids already handed
\* out.  A UUID is never handed out twice; which unused value it is makes no
\* difference to the program, so the least one stands for all of them.
randomUUID(used) ==
    {id \in SessionIds \ used : \A other \in SessionIds \ used : id <= other}

\* ------------------------------------------------------ the two callbacks
\* The hook without its assignment: the session is never registered.
onsessioninitializedDropped(reg, id, s, t) == reg

\* A hook that replaces the registry by the one new entry.
onsessioninitializedReplacing(reg, id, s, t) ==
    [i \in SessionIds |-> IF i = id THEN [server |-> s, transport |-> t] ELSE NoEntry]

\* onsessioninitialized(_sessionId): activeTransports[_sessionId] = {server, transport}
onsessioninitialized(reg, id, s, t) ==
    [reg EXCEPT ![id] = [server |-> s, transport |-> t]]

\* The test of transport.onclose: if (sid && activeTransports[sid])
oncloseGuard(sid) == sid # NoSid /\ activeTransports[sid] # NoEntry

\* onclose without the try/catch around server.close(): a rejection leaves
\* the function before the delete.
oncloseNoCatch(outcome) ==
    [logged |-> FALSE, threw |-> outcome = "rejected", delete |-> outcome = "resolved"]

\* try { await server?.close() } catch (error) { Logger.error(...) }, then the
\* delete: what the rest of onclose does once server.close() has settled.
oncloseCatch(outcome) ==
    [logged |-> outcome = "rejected", threw |-> FALSE, delete |-> TRUE]

\* onclose without its delete: the entry stays.
deleteEntrySkipped(reg, sid) == reg

\* delete activeTransports[sid]
deleteEntry(reg, sid) == [reg EXCEPT ![sid] = NoEntry]

\* ------------------------------------------------- the handlers' branching
\* The POST branching that reuses whenever a session id header is present.
PostBranchNoRegistryCheck(sid, body) ==
    IF sid # NoSid THEN "reuse"
    ELSE IF isInitializeRequest(body) THEN "init"
    ELSE "reject"

\* The POST branching without the isInitializeRequest test.
PostBranchNoInitCheck(sid, body) ==
    IF sid # NoSid /\ activeTransports[sid] # NoEntry THEN "reuse"
    ELSE IF sid = NoSid THEN "init"
    ELSE "reject"

\* POST: reuse an existing session, start a new one, or reject.
PostBranch(sid, body) ==
    IF sid # NoSid /\ activeTransports[sid] # NoEntry THEN "reuse"
    ELSE IF sid = NoSid /\ isInitializeRequest(body) THEN "init"
    ELSE "reject"

\* The GET branching with the registry test negated.
GetBranchInverted(sid) ==
    IF sid = NoSid THEN "noSessionId"
    ELSE IF activeTransports[sid] # NoEntry THEN "noTransport"
    ELSE "forward"

\* The GET branching without the registry test.
GetBranchNoRegistryCheck(sid) ==
    IF sid = NoSid THEN "noSessionId" ELSE "forward"

\* GET: the two early returns, or forwarding.
GetBranch(sid) ==
    IF sid = NoSid THEN "noSessionId"
    ELSE IF activeTransports[sid] = NoEntry THEN "noTransport"
    ELSE "forward"

\* DELETE: the two early returns, or forwarding.
DeleteBranch(sid) ==
    IF sid = NoSid THEN "noSessionId"
    ELSE IF activeTransports[sid] = NoEntry THEN "noTransport"
    ELSE "forward"

\* The transport a request carrying sid is handed to.
ResolveTransport(sid) == activeTransports[sid].transport

\* --------------------------------------------------------------- POST /mcp
\* A POST arrives: the handler reads the header and awaits getBody(req).
\* getBody collects the request stream and resolves at its end; it does not
\* reject, so the handler resumes in one of the three branches below (or
\* stays suspended while the body is incomplete).
handleStreamablePost(r, sid, body) ==
    /\ NextSlot(r)
    /\ reqs' = [reqs EXCEPT ![r] =
            [IdleReq EXCEPT !.method = "POST", !.sid = sid, !.body = body,
                            !.pc = "getBody"]]
    /\ UNCHANGED <<variant, activeTransports, transports, servers>>
    /\ UNCHANGED others

\* getBody has resolved and the session is known: forward to its transport.
PostReuse(r) ==
    /\ reqs[r].pc = "getBody"
    /\ PostBranch(reqs[r].sid, reqs[r].body) = "reuse"
    /\ reqs' = [reqs EXCEPT ![r] = Forward(@, ResolveTransport(reqs[r].sid), "reuse")]
    /\ UNCHANGED <<variant, activeTransports, transports, servers>>
    /\ UNCHANGED others

\* No answer: the handler goes on.
GoOn == <<0, NoBody>>

\* A handler that swallows the exception of createServer and goes on.
createServerCatchSwallowed(v, outcome) == GoOn

\* What the handler does with the outcome of createServer: go on when it
\* returned; when it threw, streamable.ts lands in the outer catch (500 with
\* the envelope) and unifiedServer.ts in the catch around the call (the
\* thrown Response's status, or 500 in plain text), and both return.
createServerCatch(v, outcome) ==
    CASE outcome = "ok" -> GoOn
      [] v = "streamable" -> InternalErrorReply
      [] outcome = "throwResponse" -> CreateServerResponseReply
      [] OTHER -> CreateServerFailureReply

\* getBody has resolved, no session id, initialize body: build the transport,
\* wire its hooks, create the server, call server.connect(transport) without
\* awaiting the promise it returns, forward the request.
PostInitialize(r, outcome) ==
    /\ reqs[r].pc = "getBody"
    /\ PostBranch(reqs[r].sid, reqs[r].body) = "init"
    /\ transports' = [transports EXCEPT ![r] = [NoTransport EXCEPT !.state = "new"]]
    /\ servers' = IF outcome = "ok"
                  THEN [servers EXCEPT ![r] =
                          [NoServer EXCEPT !.state = "created", !.connects = 1,
                                           !.connect = "pending"]]
                  ELSE servers
    /\ LET answer == createServerCatch(variant, outcome)
       IN reqs' = [reqs EXCEPT ![r] =
                IF answer = GoOn
                THEN Forward(@, r, "init")
                ELSE Reply([@ EXCEPT !.branch = "init"], answer)]
    /\ UNCHANGED <<variant, activeTransports>>
    /\ UNCHANGED others

\* getBody has resolved and neither branch applies: 400 with the envelope.
PostReject(r) ==
    /\ reqs[r].pc = "getBody"
    /\ PostBranch(reqs[r].sid, reqs[r].body) = "reject"
    /\ reqs' = [reqs EXCEPT ![r] =
            Reply([@ EXCEPT !.branch = "reject"], NoValidSessionReply)]
    /\ UNCHANGED <<variant, activeTransports, transports, servers>>
    /\ UNCHANGED others

\* ---------------------------------------------------------------- GET /mcp
handleStreamableGet(r, sid, lastEventId) ==
    /\ NextSlot(r)
    /\ LET rec == [IdleReq EXCEPT !.method = "GET", !.sid = sid,
                                  !.lastEventId = lastEventId]
       IN reqs' = [reqs EXCEPT ![r] =
            CASE GetBranch(sid) = "noSessionId" ->
                    Reply([rec EXCEPT !.branch = "reject"], GetNoSessionIdReply)
              [] GetBranch(sid) = "noTransport" ->
                    Reply([rec EXCEPT !.branch = "reject"], NoActiveTransportReply)
              [] OTHER -> Forward(rec, ResolveTransport(sid), "reuse")]
    /\ UNCHANGED <<variant, activeTransports, transports, servers>>
    /\ UNCHANGED others

\* ------------------------------------------------------------- DELETE /mcp
handleStreamableDelete(r, sid) ==
    /\ NextSlot(r)
    /\ LET rec == [IdleReq EXCEPT !.method = "DELETE", !.sid = sid]
       IN reqs' = [reqs EXCEPT ![r] =
            CASE DeleteBranch(sid) = "noSessionId" ->
                    Reply([rec EXCEPT !.branch = "reject"], DeleteNoSessionIdReply)
              [] DeleteBranch(sid) = "noTransport" ->
                    Reply([rec EXCEPT !.branch = "reject"], NoActiveTransportReply)
              [] OTHER -> Forward(rec, ResolveTransport(sid), "reuse")]
    /\ UNCHANGED <<variant, activeTransports, transports, servers>>
    /\ UNCHANGED others

\* ------------------------------------------------------------ the transport
\* Close signals raised so far by the transports of ts.
RECURSIVE CloseSignals(_)
CloseSignals(ts) ==
    IF ts = {} THEN 0
    ELSE LET t == CHOOSE x \in ts : TRUE
         IN transports[t].closeSignals + CloseSignals(ts \ {t})

\* While it handles the initialize request it was built for, the transport
\* draws its session id from sessionIdGenerator and calls onsessioninitialized.
\* It does so once, and not after it has signalled close.
TransportSessionInitialized(r, id) ==
    /\ reqs[r].pc = "handling"
    /\ reqs[r].branch = "init"
    /\ transports[r].state = "new"
    /\ transports[r].closeSignals = 0
    /\ id \in randomUUID(UsedIds)
    /\ transports' = [transports EXCEPT ![r].state = "initialized", ![r].sessionId = id]
    /\ activeTransports' = onsessioninitialized(activeTransports, id, r, reqs[r].fwd)
    /\ UNCHANGED <<variant, reqs, servers>>
    /\ UNCHANGED others

\* transport.handleRequest resolves: the transport has written the response.
TransportRespond(r) ==
    /\ reqs[r].pc = "handling"
    /\ reqs' = [reqs EXCEPT ![r].pc = "done", ![r].writer = "transport"]
    /\ UNCHANGED <<variant, activeTransports, transports, servers>>
    /\ UNCHANGED others

\* transport.handleRequest rejects.  POST: the outer catch answers 500 with
\* the envelope.  DELETE: its catch answers 500 in plain text.  GET has no
\* catch: the exception leaves the handler.
TransportThrow(r) ==
    /\ reqs[r].pc = "handling"
    /\ reqs' = [reqs EXCEPT ![r] =
            CASE @.method = "POST" ->
                    Reply(@, InternalErrorReply)
              [] @.method = "DELETE" ->
                    Reply(@, DeleteFailureReply)
              [] OTHER -> [@ EXCEPT !.pc = "done", !.escaped = TRUE]]
    /\ UNCHANGED <<variant, activeTransports, transports, servers>>
    /\ UNCHANGED others

\* The transport signals close: transport.onclose runs up to its await.
\* With a registered session id it calls server.close() and suspends;
\* otherwise it returns at once.
onclose(t) ==
    /\ transports[t].state # "none"
    /\ CloseSignals(Req) < MaxClose
    /\ IF oncloseGuard(transports[t].sessionId)
       THEN /\ transports' = [transports EXCEPT ![t].closeSignals = @ + 1,
                                                ![t].closing = @ + 1]
            /\ servers' = [servers EXCEPT ![t].closes = @ + 1]
       ELSE /\ transports' = [transports EXCEPT ![t].closeSignals = @ + 1]
            /\ servers' = servers
    /\ UNCHANGED <<variant, reqs, activeTransports>>
    /\ UNCHANGED others

\* server.close() has settled (resolved, or rejected and logged): the
\* suspended onclose resumes and deletes the entry of its session id.
oncloseResume(t) ==
    /\ transports[t].closing > 0
    /\ \E outcome \in {"resolved", "rejected"} :
         LET rest == oncloseCatch(outcome)
         IN /\ transports' = [transports EXCEPT
                    ![t].closing = @ - 1,
                    ![t].logged = @ \/ rest.logged,
                    ![t].threw = @ \/ rest.threw]
            /\ servers' = [servers EXCEPT
                    ![t].closeRejected = @ \/ (outcome = "rejected")]
            /\ activeTransports' =
                    IF rest.delete
                    THEN deleteEntry(activeTransports, transports[t].sessionId)
                    ELSE activeTransports
    /\ UNCHANGED <<variant, reqs>>
    /\ UNCHANGED others

\* ---------------------------------------------------------- specification
Next ==
    \/ \E r \in Req, sid \in SessionIds \cup {NoSid}, body \in Bodies :
            handleStreamablePost(r, sid, body)
    \/ \E r \in Req : PostReuse(r)
    \/ \E r \in Req, outcome \in createServerOutcomes : PostInitialize(r, outcome)
    \/ \E r \in Req : PostReject(r)
    \/ \E r \in Req, sid \in SessionIds \cup {NoSid}, lastEventId \in BOOLEAN :
            handleStreamableGet(r, sid, lastEventId)
    \/ \E r \in Req, sid \in SessionIds \cup {NoSid} : handleStreamableDelete(r, sid)
    \/ \E r \in Req, id \in SessionIds : TransportSessionInitialized(r, id)
    \/ \E r \in Req : TransportRespond(r)
    \/ \E r \in Req : TransportThrow(r)
    \/ \E t \in Req : onclose(t)
    \/ \E t \in Req : oncloseResume(t)

Spec == Init /\ [][Next]_vars

\* A server.close() that onclose awaits settles, resolved or rejected, and the
\* event loop then resumes the suspended onclose.  Nothing obliges a client
\* to send a request, or a transport to signal onsessioninitialized or close.
Fairness == \A t \in Req : WF_vars(oncloseResume(t))

FairSpec == Init /\ [][Next]_vars /\ Fairness

\* ------------------------------------------- the settling of server.connect
\* The promise of server.connect(transport) settles.  The streamable handlers
\* dropped it: nothing awaits it and nothing catches its rejection, so the
\* step changes the server and nothing else.
serverConnectSettled(t, outcome) ==
    /\ servers[t].connect = "pending"
    /\ servers' = [servers EXCEPT ![t].connect = outcome]
    /\ UNCHANGED <<variant, reqs, activeTransports, transports>>
    /\ UNCHANGED others

\* The POST handler with the transport's answers and the settling of the
\* connect it started; no transport closes.
InitializeNext ==
    \/ \E r \in Req, sid \in SessionIds \cup {NoSid}, body \in Bodies :
            handleStreamablePost(r, sid, body)
    \/ \E r \in Req : PostReuse(r)
    \/ \E r \in Req, outcome \in createServerOutcomes : PostInitialize(r, outcome)
    \/ \E r \in Req : PostReject(r)
    \/ \E r \in Req, id \in SessionIds : TransportSessionInitialized(r, id)
    \/ \E r \in Req : TransportRespond(r)
    \/ \E r \in Req : TransportThrow(r)
    \/ \E t \in Req, outcome \in {"resolved", "rejected"} :
            serverConnectSettled(t, outcome)

InitializeSpec == Init /\ [][InitializeNext]_vars

\* ============================================================ POST /render
\* Strings are sequences of characters, so that startsWith, slice and trim
\* are computed as JavaScript computes them.  An absent header (undefined)
\* and an empty one are both the empty sequence: both are falsy, and the
\* handler only tests truthiness.
Bearer == <<"B", "e", "a", "r", "e", "r", " ">>
startsWith(s, prefix) ==
    Len(s) >= Len(prefix) /\ SubSeq(s, 1, Len(prefix)) = prefix
slice(s, n) == SubSeq(s, n + 1, Len(s))
Whitespace == {" ", "\t", "\n"}

RECURSIVE trimStart(_)
trimStart(s) ==
    IF s # <<>> /\ Head(s) \in Whitespace THEN trimStart(Tail(s)) ELSE s
RECURSIVE trimEnd(_)
trimEnd(s) ==
    IF s # <<>> /\ s[Len(s)] \in Whitespace
    THEN trimEnd(SubSeq(s, 1, Len(s) - 1)) ELSE s
trim(s) == trimEnd(trimStart(s))

\* The Authorization headers a request is sent with.
AuthorizationHeaders ==
    { <<>>,
      Bearer,
      Bearer \o <<"k">>,
      Bearer \o <<"k", " ", "2">>,
      <<"b", "e", "a", "r", "e", "r", " ", "k">>,
      <<"B", "e", "a", "r", "e", "r", "k">>,
      <<"B", "a", "s", "i", "c", " ", "k">> }

\* A token extraction that accepts any non-empty header as the token.
bearerTokenAnyScheme(authHeader) == authHeader

\* token = authHeader && typeof authHeader === "string" &&
\*         authHeader.startsWith("Bearer ") ? authHeader.slice(7) : undefined
\* (undefined and "" are both the empty sequence)
bearerToken(authHeader) ==
    IF authHeader # <<>> /\ startsWith(authHeader, Bearer)
    THEN slice(authHeader, 7) ELSE <<>>

MermaidValues ==
    { Undefined, Number, Str(<<>>), Str(<<" ">>), Str(<<"\n", " ">>),
      Str(<<"A">>), Str(<<" ", "A", "\n">>) }
OutputTypeValues ==
    { Undefined, Number, Str(<<"p", "n", "g">>), Str(<<"s", "v", "g">>),
      Str(<<"m", "e", "r", "m", "a", "i", "d">>), Str(<<"p", "d", "f">>) }

\* What JSON.parse returns: an object with the two fields the handler reads,
\* or a value that is not an object (null, a number), whose fields are
\* undefined.
JsonValues ==
    [type : {"object"}, mermaid : MermaidValues, outputType : OutputTypeValues]
    \cup [type : {"null", "number"}, mermaid : {Undefined}, outputType : {Undefined}]

\* What getBody resolves to: a string, which is JSON text or is not, or a
\* value that is already parsed.
RawBodies ==
    [isString : {TRUE}, syntaxError : {TRUE}, value : {[type |-> "null",
        mermaid |-> Undefined, outputType |-> Undefined]}]
    \cup [isString : BOOLEAN, syntaxError : {FALSE}, value : JsonValues]

\* The validation without trim().
mermaidMissingNoTrim(mermaid) == mermaid.type # "string" \/ mermaid.chars = <<>>

\* The test of the validation: typeof mermaid !== "string" || !mermaid.trim()
mermaidMissing(mermaid) == mermaid.type # "string" \/ trim(mermaid.chars) = <<>>

\* The branching that stores the svg as well.
outputBranchStoresSvg(outputType) ==
    IF outputType = Str(<<"m", "e", "r", "m", "a", "i", "d">>) THEN "mermaid"
    ELSE "png"

\* outputType = "png" when the field is undefined; then the two comparisons
\* outputType === "mermaid", outputType === "svg"; everything else is stored.
outputBranch(outputType) ==
    IF outputType = Str(<<"m", "e", "r", "m", "a", "i", "d">>) THEN "mermaid"
    ELSE IF outputType = Str(<<"s", "v", "g">>) THEN "svg"
    ELSE "png"

\* What renderMermaid does: reject, or resolve to {svg, screenshot} where the
\* screenshot is absent (undefined), an empty Buffer or a Buffer with bytes.
renderMermaidOutcomes == {"throws", "undefined", "emptyBuffer", "buffer"}
\* if (!screenshot): a Buffer is an object, hence truthy even when empty.
noScreenshot(screenshot) == screenshot = "undefined"
\* What fileStorage.storeFile does.
storeFileOutcomes == {"stored", "throws"}

\* this.config.apiKey in FileStorageService: the field of the configuration
\* object the service was constructed with.  Read on a string it is undefined.
apiKey(config) == IF config.type = "object" THEN config.apiKey ELSE Undefined

\* `${value}` in a template literal: undefined becomes the text "undefined".
templateLiteral(value) ==
    IF value.type = "undefined"
    THEN <<"u", "n", "d", "e", "f", "i", "n", "e", "d">>
    ELSE value.chars

\* The Authorization header of the upload: `Bearer ${this.config.apiKey}`
uploadAuthorization(config) == Bearer \o templateLiteral(apiKey(config))

\* res.writeHead(status).end(JSON.stringify(body)); return
RenderReply(rec, status, body) ==
    [rec EXCEPT !.pc = "done", !.status = status, !.resp = body]

\* POST /render arrives: the token is taken from the Authorization header;
\* without one the handler answers 401, otherwise it awaits getBody(req).
handleRender(authHeader, raw) ==
    /\ variant = "streamable"
    /\ render.pc = "idle"
    /\ LET rec == [render EXCEPT !.authorization = authHeader,
                                 !.token = bearerToken(authHeader), !.raw = raw]
       IN render' =
            IF rec.token = <<>>
            THEN RenderReply(rec, 401,
                    RenderError("Unauthorized: Missing Authorization Key"))
            ELSE [rec EXCEPT !.pc = "getBody", !.getBodyCalls = @ + 1]
    /\ UNCHANGED <<variant, streamableVars, routed, sseVars, sweep>>

\* getBody has resolved: parse, validate, and call renderMermaid.
renderValidate ==
    /\ render.pc = "getBody"
    /\ LET raw == render.raw
           rec == [render EXCEPT !.parsed = raw.isString]
           body == raw.value
       IN render' =
            IF raw.isString /\ raw.syntaxError
            THEN RenderReply(rec, 400, RenderError("Invalid JSON body"))
            ELSE IF mermaidMissing(body.mermaid)
            THEN RenderReply(rec, 400, RenderError("'mermaid' is required"))
            ELSE [rec EXCEPT !.pc = "renderMermaid", !.renderMermaidCalls = @ + 1]
    /\ UNCHANGED <<variant, streamableVars, routed, sseVars, sweep>>

\* renderMermaid has settled: the outer catch, or the three output branches.
\* The png branch constructs FileStorageService with the token (a string) as
\* its configuration and awaits storeFile, which sends the upload.
renderBranch(outcome) ==
    /\ render.pc = "renderMermaid"
    /\ LET body == render.raw.value
           branch == outputBranch(body.outputType)
       IN render' =
            IF outcome = "throws"
            THEN RenderReply([render EXCEPT !.logged = TRUE], 500,
                             RenderError("Internal Server Error"))
            ELSE LET rec == [render EXCEPT !.screenshot = outcome]
                 IN CASE branch = "mermaid" ->
                            RenderReply(rec, 200,
                                [NoRenderBody EXCEPT !.mermaid = body.mermaid.chars,
                                                     !.mimeType = "text/plain"])
                      [] branch = "svg" ->
                            RenderReply(rec, 200,
                                [NoRenderBody EXCEPT !.svg = "svg",
                                                     !.mimeType = "image/svg+xml"])
                      [] noScreenshot(outcome) ->
                            RenderReply(rec, 500,
                                RenderError("Failed to generate screenshot"))
                      [] OTHER ->
                            [rec EXCEPT !.pc = "storeFile",
                                        !.storageArg = render.token,
                                        !.uploadAuthorization =
                                            uploadAuthorization(Str(render.token)),
                                        !.storeFileCalls = @ + 1]
    /\ UNCHANGED <<variant, streamableVars, routed, sseVars, sweep>>

\* storeFile has settled: 200 with the stored file, or the outer catch.
renderStored(outcome) ==
    /\ render.pc = "storeFile"
    /\ render' =
            IF outcome = "throws"
            THEN RenderReply([render EXCEPT !.logged = TRUE], 500,
                             RenderError("Internal Server Error"))
            ELSE RenderReply(render, 200,
                    [NoRenderBody EXCEPT !.url = "url", !.fileId = "fileId",
                                         !.mimeType = "image/png"])
    /\ UNCHANGED <<variant, streamableVars, routed, sseVars, sweep>>

RenderNext ==
    \/ \E authHeader \in AuthorizationHeaders, raw \in RawBodies :
            handleRender(authHeader, raw)
    \/ renderValidate
    \/ \E outcome \in renderMermaidOutcomes : renderBranch(outcome)
    \/ \E outcome \in storeFileOutcomes : renderStored(outcome)

\* The /render route exists in startHTTPStreamableServer only.
RenderSpec == Init /\ [][RenderNext]_vars

\* ================================================================ routing
\* req.url as a sequence of pieces; "?" starts the query string.
Methods == {"GET", "POST", "DELETE", "PUT"}
Urls ==
    { <<"/", "sse">>, <<"/", "sse", "?", "q">>, <<"/", "sse", "/">>,
      <<"/", "mcp">>, <<"/", "mcp", "?", "q">>, <<"/", "mcp", "X">>,
      <<"/", "render">>, <<"/", "render", "?", "q">>, <<"/", "render", "/">>,
      <<"/", "messages">>, <<"/", "messages", "?", "sessionId=1">>,
      <<"/", "messages", "X">>, <<"/", "messages", "/", "X">>,
      <<"/", "X", "/", "messages">>, <<"/", "X">>, <<"/">>, <<>> }

\* new URL(req.url, "http://localhost").pathname: the url up to its query.
RECURSIVE pathname(_)
pathname(url) ==
    IF url = <<>> \/ Head(url) = "?" THEN <<>>
    ELSE <<Head(url)>> \o pathname(Tail(url))

\* The configured endpoints (their defaults) and the two fixed paths.
sseEndpoint == <<"/", "sse">>
streamableEndpoint == <<"/", "mcp">>
renderPath == <<"/", "render">>
messagesPrefix == <<"/", "messages">>

\* A router that matches every path by prefix.
RoutePrefixEverywhere(v, method, url) ==
    CASE url = <<>> -> "noUrl"
      [] v = "unified" /\ method = "GET" /\ startsWith(url, sseEndpoint) ->
            "SSE-connect"
      [] v = "unified" /\ method = "POST" /\ startsWith(url, messagesPrefix) ->
            "SSE-post-message"
      [] v = "streamable" /\ method = "POST" /\ startsWith(url, renderPath) ->
            "render"
      [] method = "POST" /\ startsWith(url, streamableEndpoint) -> "Streamable-post"
      [] method = "GET" /\ startsWith(url, streamableEndpoint) -> "Streamable-get"
      [] method = "DELETE" /\ startsWith(url, streamableEndpoint) -> "Streamable-delete"
      [] OTHER -> "unmatched"

\* handleRequest of either program: the tests in the order of the code.  The
\* unified server tries the two SSE routes first and has no /render route;
\* the streamable server tries /render first and has no SSE routes.
Route(v, method, url) ==
    CASE url = <<>> -> "noUrl"
      [] v = "unified" /\ method = "GET" /\ pathname(url) = sseEndpoint ->
            "SSE-connect"
      [] v = "unified" /\ method = "POST" /\ startsWith(url, messagesPrefix) ->
            "SSE-post-message"
      [] v = "streamable" /\ method = "POST" /\ pathname(url) = renderPath ->
            "render"
      [] method = "POST" /\ pathname(url) = streamableEndpoint -> "Streamable-post"
      [] method = "GET" /\ pathname(url) = streamableEndpoint -> "Streamable-get"
      [] method = "DELETE" /\ pathname(url) = streamableEndpoint -> "Streamable-delete"
      [] OTHER -> "unmatched"

\* A request arrives and handleRequest classifies it.  The router itself
\* answers the request without a url (400) and the unmatched one (404);
\* every other request is handed to the handler of its route.  The
\* classification keeps no state, so a behaviour follows one request.
handleRequest(method, url) ==
    /\ routed = NotRouted
    /\ LET route == Route(variant, method, url)
       IN routed' = [method |-> method, url |-> url, route |-> route,
                     status |-> CASE route = "noUrl" -> 400
                                  [] route = "unmatched" -> 404
                                  [] OTHER -> 0,
                     text |-> CASE route = "noUrl" -> "No URL"
                                [] route = "unmatched" -> "Not found"
                                [] OTHER -> ""]
    /\ UNCHANGED <<variant, streamableVars, render, sseVars, sweep>>

\* Requests are classified while sessions are opened and closed: of the
\* session traffic, the steps that change the registry.
RouterNext ==
    \/ \E method \in Methods, url \in Urls : handleRequest(method, url)
    \/ \E r \in Req : handleStreamablePost(r, NoSid, "initialize")
    \/ \E r \in Req : PostInitialize(r, "ok")
    \/ \E r \in Req, id \in SessionIds : TransportSessionInitialized(r, id)
    \/ \E t \in Req : onclose(t)
    \/ \E t \in Req : oncloseResume(t)

RouterSpec == Init /\ [][RouterNext]_vars

\* ==================================================================== SSE
\* The next free SSE slot.
NextSseSlot(c) ==
    sseReqs[c].pc = "idle" /\ \A q \in Req : q < c => sseReqs[q].pc # "idle"

\* Session ids the SSE transports were constructed with.
UsedSseIds == {sseReqs[c].sessionId : c \in Req} \ {NoSid}

\* The catch of handleSSEConnection: if (!closed) log and answer 500.
sseConnectFailed(rec) ==
    IF rec.closed
    THEN [rec EXCEPT !.pc = "failed"]
    ELSE [rec EXCEPT !.pc = "failed", !.status = 500,
                     !.text = "Error connecting to server",
                     !.logged = @ \cup {"Error connecting to SSE server"}]

\* A handler that does not register the transport it builds.
registerSSETransportDropped(reg, id, c) == reg

\* activeSSETransports[transport.sessionId] = transport
registerSSETransport(reg, id, c) == [reg EXCEPT ![id] = c]

\* A close listener without its delete.
deleteSSETransportSkipped(reg, id) == reg

\* delete activeSSETransports[transport.sessionId]
deleteSSETransport(reg, id) == [reg EXCEPT ![id] = 0]

\* GET on the SSE endpoint: create the server and the transport, register
\* the transport under its session id, listen for the close of the response,
\* then await server.connect(transport).  A createServer that throws rejects
\* the promise of the handler, which nobody awaits.
handleSSEConnection(c, outcome) ==
    /\ variant = "unified"
    /\ NextSseSlot(c)
    /\ IF outcome = "ok"
       THEN \E id \in randomUUID(UsedSseIds) :
            /\ sseReqs' = [sseReqs EXCEPT ![c] =
                    [IdleSse EXCEPT !.kind = "connect", !.pc = "connect",
                                    !.sessionId = id, !.server = "created"]]
            /\ activeSSETransports' = registerSSETransport(activeSSETransports, id, c)
       ELSE /\ sseReqs' = [sseReqs EXCEPT ![c] =
                    [IdleSse EXCEPT !.kind = "connect", !.pc = "done",
                                    !.escaped = TRUE]]
            /\ activeSSETransports' = activeSSETransports
    /\ UNCHANGED <<variant, streamableVars, render, routed, sweep>>

\* server.connect(transport) settles: send the greeting, or the catch.
sseConnectSettled(c, outcome) ==
    /\ sseReqs[c].pc = "connect"
    /\ sseReqs' = [sseReqs EXCEPT ![c] =
            IF outcome = "resolved" THEN [@ EXCEPT !.pc = "send"]
            ELSE sseConnectFailed(@)]
    /\ UNCHANGED <<variant, streamableVars, render, routed, activeSSETransports, sweep>>

\* transport.send(...) settles: the connection is open, or the catch.
sseSendSettled(c, outcome) ==
    /\ sseReqs[c].pc = "send"
    /\ sseReqs' = [sseReqs EXCEPT ![c] =
            IF outcome = "resolved" THEN [@ EXCEPT !.pc = "open"]
            ELSE sseConnectFailed(@)]
    /\ UNCHANGED <<variant, streamableVars, render, routed, activeSSETransports, sweep>>

\* The response emits "close" (once): the listener sets closed, calls
\* server.close() and suspends.
sseResClose(c) ==
    /\ sseReqs[c].kind = "connect"
    /\ sseReqs[c].server = "created"
    /\ ~sseReqs[c].closed
    /\ sseReqs' = [sseReqs EXCEPT ![c].closed = TRUE, ![c].closing = @ + 1,
                                  ![c].serverCloses = @ + 1]
    /\ UNCHANGED <<variant, streamableVars, render, routed, activeSSETransports, sweep>>

\* server.close() has settled: the listener logs a rejection, then deletes
\* the entry of the transport's session id.
sseCloseResume(c, outcome) ==
    /\ sseReqs[c].closing > 0
    /\ sseReqs' = [sseReqs EXCEPT ![c].closing = @ - 1,
            ![c].logged = IF outcome = "rejected"
                          THEN @ \cup {"Error closing SSE server"} ELSE @]
    /\ activeSSETransports' =
            deleteSSETransport(activeSSETransports, sseReqs[c].sessionId)
    /\ UNCHANGED <<variant, streamableVars, render, routed, sweep>>

\* The session id of a posted message read from the header.
postSessionIdFromHeader(query, header) == header

\* searchParams.get("sessionId") of the posted message's url.
postSessionId(query, header) == query

\* POST on /messages: the two early returns, or forwarding to the transport
\* registered under the session id and awaiting its handlePostMessage.
handleSSEPostMessage(p, query, header) ==
    /\ variant = "unified"
    /\ NextSseSlot(p)
    /\ LET sessionId == postSessionId(query, header)
           rec == [IdleSse EXCEPT !.kind = "post", !.query = query,
                                  !.header = header]
       IN sseReqs' = [sseReqs EXCEPT ![p] =
            IF sessionId = NoSid
            THEN [rec EXCEPT !.pc = "done", !.status = 400, !.text = "No sessionId"]
            ELSE IF activeSSETransports[sessionId] = 0
            THEN [rec EXCEPT !.pc = "done", !.status = 400,
                             !.text = "No active transport"]
            ELSE [rec EXCEPT !.pc = "handling",
                             !.fwd = activeSSETransports[sessionId]]]
    /\ UNCHANGED <<variant, streamableVars, render, routed, activeSSETransports, sweep>>

\* handlePostMessage settles: the transport has answered, or the rejection
\* leaves the handler, whose promise nobody awaits.
ssePostSettled(p, outcome) ==
    /\ sseReqs[p].pc = "handling"
    /\ sseReqs' = [sseReqs EXCEPT ![p].pc = "done",
                                  ![p].escaped = (outcome = "rejected")]
    /\ UNCHANGED <<variant, streamableVars, render, routed, activeSSETransports, sweep>>

Settled == {"resolved", "rejected"}

SseNext ==
    \/ \E c \in Req, outcome \in {"ok", "throwError"} : handleSSEConnection(c, outcome)
    \/ \E c \in Req, outcome \in Settled : sseConnectSettled(c, outcome)
    \/ \E c \in Req, outcome \in Settled : sseSendSettled(c, outcome)
    \/ \E c \in Req : sseResClose(c)
    \/ \E c \in Req, outcome \in Settled : sseCloseResume(c, outcome)
    \/ \E p \in Req, query \in SessionIds \cup {NoSid}, header \in SessionIds \cup {NoSid} :
            handleSSEPostMessage(p, query, header)
    \/ \E p \in Req, outcome \in Settled : ssePostSettled(p, outcome)

\* The SSE endpoints exist in startUnifiedMcpServer only.
SseSpec == Init /\ [][SseNext]_vars

\* A server.close() that the close listener awaits settles, and the listener
\* resumes.  Nothing obliges a client to connect, to post or to hang up.
SseFairness ==
    \A c \in Req : WF_vars(\E outcome \in Settled : sseCloseResume(c, outcome))

FairSseSpec == Init /\ [][SseNext]_vars /\ SseFairness

\* ================================================================ cleanup
\* The transports the sweep reaches: the values of the two registries.
SweepTargets ==
    {<<"sse", activeSSETransports[id]>> :
        id \in {i \in SessionIds : activeSSETransports[i] # 0}}
    \cup {<<"streamable", activeTransports[id].transport>> : id \in RegistryKeys}

\* cleanup(): transport.close() on every value of the SSE registry, then of
\* the streamable registry, each call in its own try/catch; `threw` are the
\* transports whose close() throws, which is logged.  close() of a
\* streamable transport signals close, so its onclose runs up to its await;
\* close() of an SSE transport ends the response, whose "close" event
\* follows.  The sweep itself deletes nothing.
cleanup(threw) ==
    /\ ~sweep.ran
    /\ threw \subseteq SweepTargets
    /\ sweep' = [ran |-> TRUE, closeCalled |-> SweepTargets, closeThrew |-> threw]
    /\ LET signalled == {t \in Req : <<"streamable", t>> \in SweepTargets \ threw}
       IN /\ transports' = [t \in Req |->
                IF t \notin signalled THEN transports[t]
                ELSE IF oncloseGuard(transports[t].sessionId)
                THEN [transports[t] EXCEPT !.closeSignals = @ + 1, !.closing = @ + 1]
                ELSE [transports[t] EXCEPT !.closeSignals = @ + 1]]
          /\ servers' = [t \in Req |->
                IF t \in signalled /\ oncloseGuard(transports[t].sessionId)
                THEN [servers[t] EXCEPT !.closes = @ + 1]
                ELSE servers[t]]
    /\ sseReqs' = [c \in Req |->
            IF <<"sse", c>> \in SweepTargets \ threw
            THEN [sseReqs[c] EXCEPT !.ended = TRUE]
            ELSE sseReqs[c]]
    /\ UNCHANGED <<variant, reqs, activeTransports, render, routed, activeSSETransports>>

\* Sessions are opened on both endpoints and the process is shut down: of
\* the traffic, the steps that open a session, and those that follow a close.
ShutdownNext ==
    \/ \E r \in Req : handleStreamablePost(r, NoSid, "initialize")
    \/ \E r \in Req : PostInitialize(r, "ok")
    \/ \E r \in Req, id \in SessionIds : TransportSessionInitialized(r, id)
    \/ \E t \in Req : oncloseResume(t)
    \/ \E c \in Req : handleSSEConnection(c, "ok")
    \/ \E c \in Req : sseConnectSettled(c, "resolved")
    \/ \E c \in Req : sseSendSettled(c, "resolved")
    \/ \E c \in Req : sseResClose(c)
    \/ \E c \in Req, outcome \in Settled : sseCloseResume(c, outcome)
    \/ \E threw \in SUBSET SweepTargets : cleanup(threw)

ShutdownSpec == Init /\ [][ShutdownNext]_vars

\* A server.close() that a close handler awaits settles and the handler
\* resumes; a response that was ended emits "close".
ShutdownFairness ==
    /\ \A t \in Req : WF_vars(oncloseResume(t))
    /\ \A c \in Req : WF_vars(\E outcome \in Settled : sseCloseResume(c, outcome))
    /\ \A c \in Req : WF_vars(sseReqs[c].ended /\ sseResClose(c))

FairShutdownSpec == Init /\ [][ShutdownNext]_vars /\ ShutdownFairness

\* ========================================================= all the handlers
\* The bodies /render is sent here: text that is not JSON, and a diagram to
\* be stored.
FrameRawBodies ==
    { [isString |-> TRUE, syntaxError |-> TRUE,
       value |-> [type |-> "null", mermaid |-> Undefined, outputType |-> Undefined]],
      [isString |-> TRUE, syntaxError |-> FALSE,
       value |-> [type |-> "object", mermaid |-> Str(<<"A">>),
                  outputType |-> Undefined]] }

\* Every operation of the streamable servers that can run while sessions
\* exist: the session traffic, a /render exchange and the cleanup sweep.
FrameNext ==
    \/ Next
    \/ \E authHeader \in {<<>>, Bearer \o <<"k">>}, raw \in FrameRawBodies :
            handleRender(authHeader, raw)
    \/ renderValidate
    \/ \E outcome \in renderMermaidOutcomes : renderBranch(outcome)
    \/ \E outcome \in storeFileOutcomes : renderStored(outcome)
    \/ \E threw \in SUBSET SweepTargets : cleanup(threw)

FrameSpec == Init /\ [][FrameNext]_vars

\* ==================================================================
\* Properties
\* ==================================================================
\* Transport t has signalled onsessioninitialized(id) and has not signalled close.
LiveOwner(id, t) ==
    /\ id # NoSid
    /\ transports[t].state = "initialized"
    /\ transports[t].sessionId = id
    /\ transports[t].closeSignals = 0

\* In this step the handler of request r looks its session up and decides:
\* at arrival for GET and DELETE, when getBody has resolved for POST.
Resolves(r) ==
    \/ reqs[r].pc = "idle" /\ reqs'[r].pc \notin {"idle", "getBody"}
    \/ reqs[r].pc = "getBody" /\ reqs'[r].pc # "getBody"

\* The step leaves the registry, the transports and the servers as they were.
NothingCreated ==
    /\ activeTransports' = activeTransports
    /\ transports' = transports
    /\ servers' = servers

\* ------------------------------------------------------------------ C1
\* Once a transport has signalled onsessioninitialized(id), and until it
\* signals close, the registry maps id to that transport and its server.
C1_Registered ==
    \A t \in Req : LiveOwner(transports[t].sessionId, t) =>
        activeTransports[transports[t].sessionId] = [server |-> t, transport |-> t]

\* A request that carries id and is resolved while the owner of id has
\* signalled onsessioninitialized and not close is forwarded to that owner.
C1_Forwarded ==
    \A r \in Req, t \in Req :
        (Resolves(r) /\ LiveOwner(reqs'[r].sid, t)) =>
            (reqs'[r].pc = "handling" /\ reqs'[r].fwd = t)

\* The initialize branch builds a transport no request has been handed to.
C1_NewTransport ==
    \A r \in Req :
        (reqs[r].pc = "getBody" /\ reqs'[r].branch = "init") =>
            /\ transports[r].state = "none" /\ transports'[r].state = "new"
            /\ servers[r].state = "none"
            /\ \A q \in Req : reqs[q].fwd # r

\* C1 as stated: every POST without a session id whose body is a valid
\* initialize call creates a new transport and a new server; once the
\* transport signals onsessioninitialized(id) the id is registered and every
\* later request carrying it is forwarded to that transport until it closes.
C1_Original ==
    /\ [](\A r \in Req : reqs[r].branch = "init" =>
            (transports[r].state # "none" /\ servers[r].state = "created"))
    /\ []C1_Registered
    /\ [][C1_NewTransport /\ C1_Forwarded]_vars

\* C1 as amended: the new server exists exactly when createServer returned,
\* that is when the request was forwarded to the new transport; when it threw,
\* the controller answered and nothing is forwarded.  The rest as stated.
C1_Amended ==
    /\ [](\A r \in Req : reqs[r].branch = "init" =>
            /\ transports[r].state # "none"
            /\ (servers[r].state = "created" <=> reqs[r].fwd = r)
            /\ (reqs[r].fwd # r => (reqs[r].pc = "done" /\ reqs[r].writer = "controller")))
    /\ []C1_Registered
    /\ [][C1_NewTransport /\ C1_Forwarded]_vars

\* A session created by one request has served a later request carrying its id.
C1_Witness ==
    \E r \in Req, t \in Req :
        /\ r # t
        /\ reqs[t].branch = "init" /\ transports[t].state = "initialized"
        /\ reqs[r].sid = transports[t].sessionId
        /\ reqs[r].fwd = t /\ reqs[r].pc = "done" /\ reqs[r].writer = "transport"

\* ------------------------------------------------------------------ C2
\* C2: two initialize requests give two independent sessions: the ids differ,
\* every registered id maps to the transport that owns it and to the server
\* created with that transport (so two entries never share a transport or a
\* server), and a registry entry changes only when its own transport signals
\* onsessioninitialized or finishes its own close; nothing done to one session
\* touches the entry of another.
C2_Independent ==
    /\ [](\A t1 \in Req, t2 \in Req :
            (t1 # t2 /\ transports[t1].sessionId # NoSid) =>
                transports[t1].sessionId # transports[t2].sessionId)
    /\ [](\A id \in SessionIds : activeTransports[id] # NoEntry =>
            /\ transports[activeTransports[id].transport].sessionId = id
            /\ activeTransports[id].server = activeTransports[id].transport
            /\ servers[activeTransports[id].server].state = "created")
    /\ []C1_Registered
    /\ [][\A id \in SessionIds : activeTransports'[id] # activeTransports[id] =>
            \/ /\ activeTransports[id] = NoEntry
               /\ LET t == activeTransports'[id].transport
                  IN transports[t].state = "new" /\ transports'[t].sessionId = id
            \/ /\ activeTransports'[id] = NoEntry
               /\ LET t == activeTransports[id].transport
                  IN /\ transports[t].sessionId = id
                     /\ transports'[t].closing = transports[t].closing - 1]_vars

\* Two sessions were registered; one has been closed and removed while the
\* other is still registered.
C2_Witness ==
    \E t1 \in Req, t2 \in Req :
        /\ t1 # t2
        /\ transports[t1].state = "initialized" /\ transports[t2].state = "initialized"
        /\ transports[t1].closeSignals > 0 /\ transports[t1].closing = 0
        /\ ~Registered(transports[t1].sessionId)
        /\ Registered(transports[t2].sessionId)
        /\ activeTransports[transports[t2].sessionId].transport = t2

\* ------------------------------------------------------------------ C3
\* C3: a POST with no session id whose body is not a valid initialize call is
\* answered 400 with {jsonrpc:"2.0", id:null, error:{code:-32000, message:"...No
\* valid session ID..."}}; it creates no transport and no server and leaves the
\* registry unchanged.
C3_Rejected ==
    [][\A r \in Req :
        (/\ reqs[r].pc = "getBody" /\ reqs'[r].pc # "getBody"
         /\ reqs[r].sid = NoSid /\ ~isInitializeRequest(reqs[r].body)) =>
            /\ reqs'[r].pc = "done" /\ reqs'[r].writer = "controller"
            /\ reqs'[r].status = 400
            /\ reqs'[r].resp =
                 [jsonrpc |-> "2.0", id |-> "null", code |-> -32000,
                  message |-> "Bad Request: No valid session ID provided"]
            /\ reqs'[r].fwd = 0
            /\ NothingCreated]_vars

\* Such a POST has been answered while a session was registered.
C3_Witness ==
    \E r \in Req :
        /\ reqs[r].method = "POST" /\ reqs[r].sid = NoSid /\ reqs[r].body = "other"
        /\ reqs[r].pc = "done" /\ reqs[r].status = 400
        /\ RegistryKeys # {}

\* ------------------------------------------------------------------ C4
\* C4: a GET or DELETE whose session id is missing or not registered, and a
\* POST whose session id is not registered (whatever its body), is answered
\* 400; the registry is unchanged and no transport receives the request.
C4_Rejected ==
    [][\A r \in Req :
        (/\ Resolves(r)
         /\ ~Registered(reqs'[r].sid)
         /\ (reqs'[r].method = "POST" => reqs'[r].sid # NoSid)) =>
            /\ reqs'[r].pc = "done" /\ reqs'[r].writer = "controller"
            /\ reqs'[r].status = 400
            /\ reqs'[r].fwd = 0
            /\ NothingCreated]_vars

\* A POST with an initialize body and an id that is not registered has been
\* answered 400 while a session is registered under another id.
C4_Witness ==
    /\ RegistryKeys # {}
    /\ \E r \in Req :
        /\ reqs[r].pc = "done" /\ reqs[r].status = 400
        /\ reqs[r].sid # NoSid
        /\ reqs[r].method = "POST" /\ reqs[r].body = "initialize"

\* ------------------------------------------------------------------ C5
\* C5: the first close signal of a registered session's transport removes the
\* entry once and closes the server once; every further close signal of that
\* transport, also one raised while the first is still being processed,
\* changes nothing in the registry and does not close the server again.
C5_SecondCloseNoOp ==
    /\ [](\A t \in Req : servers[t].closes <= 1)
    /\ [][\A t \in Req :
            (/\ transports[t].closeSignals >= 1
             /\ transports'[t].closeSignals > transports[t].closeSignals) =>
                (servers' = servers /\ activeTransports' = activeTransports
                 /\ transports'[t].closing = transports[t].closing)]_vars

C7_RegistryIff ==
    \A id \in SessionIds :
        activeTransports[id] # NoEntry <=> \E t \in Req : LiveOwner(id, t)

\* ------------------------------------------------------------------ C8
\* C8: a GET carrying a registered session id, with or without last-event-id,
\* is forwarded to the transport registered under that id; it creates no
\* transport, no server and no registry entry: the registry is unchanged.
C8_GetForwarded ==
    [][\A r \in Req :
        (/\ Resolves(r) /\ reqs'[r].method = "GET"
         /\ Registered(reqs'[r].sid)) =>
            /\ reqs'[r].pc = "handling"
            /\ reqs'[r].fwd = activeTransports[reqs'[r].sid].transport
            /\ reqs'[r].status = 0 /\ reqs'[r].writer = "none"
            /\ transports[reqs'[r].fwd].state # "none"
            /\ NothingCreated]_vars

\* A GET with a last-event-id header has been forwarded to the transport of
\* a registered session.
C8_Witness ==
    \E r \in Req :
        /\ reqs[r].method = "GET" /\ reqs[r].lastEventId
        /\ reqs[r].fwd # 0 /\ reqs[r].fwd # r
        /\ transports[reqs[r].fwd].sessionId = reqs[r].sid

\* ------------------------------------------------------------------ C9
\* The handler has forwarded DELETE request r and the transport has finished it.
DeleteHandled(r) ==
    reqs[r].method = "DELETE" /\ reqs[r].fwd # 0 /\ reqs[r].pc = "done"

\* A DELETE carrying a registered id is forwarded to the transport registered
\* under it, and the handler leaves the registry as it is.
C9_Forwarded ==
    \A r \in Req :
        (/\ Resolves(r) /\ reqs'[r].method = "DELETE"
         /\ Registered(reqs'[r].sid)) =>
            /\ reqs'[r].pc = "handling"
            /\ reqs'[r].fwd = activeTransports[reqs'[r].sid].transport
            /\ NothingCreated

\* An entry leaves the registry only in the step in which an onclose of its
\* own transport, started by a close signal, resumes.
C9_RemovedByClose ==
    \A id \in SessionIds :
        (activeTransports[id] # NoEntry /\ activeTransports'[id] = NoEntry) =>
            LET t == activeTransports[id].transport
            IN /\ transports[t].sessionId = id
               /\ transports[t].closeSignals > 0
               /\ transports'[t].closing = transports[t].closing - 1
               /\ reqs' = reqs

\* A request carrying an id that was handed out and is no longer registered
\* is answered 400, and such an id is never registered again.
C9_GoneStaysGone ==
    /\ \A r \in Req :
        (Resolves(r) /\ reqs'[r].sid \in UsedIds /\ ~Registered(reqs'[r].sid)) =>
            (reqs'[r].status = 400 /\ reqs'[r].fwd = 0)
    /\ \A id \in UsedIds : ~Registered(id) => activeTransports'[id] = NoEntry

IsEnvelope(body, code) ==
    body.jsonrpc = "2.0" /\ body.id = "null" /\ body.code = code /\ body.message # ""

\* The request ended in an internal failure: the controller answered with a
\* 5xx status, or the exception left the handler unanswered.
Failed(r) ==
    \/ reqs[r].writer = "controller" /\ reqs[r].status >= 500
    \/ reqs[r].escaped

HasBearerToken(header) ==
    Len(header) > 7 /\ SubSeq(header, 1, 7) = <<"B", "e", "a", "r", "e", "r", " ">>

\* C11: a POST /render whose Authorization header is absent, or carries no
\* non-empty Bearer token, is answered 401 with {error:{message}} whatever
\* its body is; the body is neither read nor parsed, and neither the
\* renderer nor the storage is called.
C11_Unauthorized ==
    (render.pc # "idle" /\ ~HasBearerToken(render.authorization)) =>
        /\ render.pc = "done" /\ render.status = 401
        /\ render.resp.error # ""
        /\ render.resp = [NoRenderBody EXCEPT !.error = render.resp.error]
        /\ render.getBodyCalls = 0 /\ ~render.parsed
        /\ render.renderMermaidCalls = 0 /\ render.storeFileCalls = 0

\* A request with a Basic credential and a body that would render has been
\* answered 401.
C11_Witness ==
    /\ render.authorization = <<"B", "a", "s", "i", "c", " ", "k">>
    /\ render.raw.isString /\ ~render.raw.syntaxError
    /\ render.raw.value.type = "object"
    /\ render.raw.value.mermaid = Str(<<"A">>)
    /\ render.status = 401

\* ------------------------------------------------------------------ C12
\* The value is no string, or a string of whitespace only.
BlankOrNoString(v) ==
    v.type # "string" \/ \A i \in 1..Len(v.chars) : v.chars[i] \in Whitespace

\* The handler has read the body of the authenticated request and gone on.
RenderValidated ==
    render.pc \notin {"idle", "getBody"} /\ HasBearerToken(render.authorization)

\* C12: an authenticated POST /render whose body is not parseable JSON, or
\* whose mermaid field is missing, not a string, or empty after trimming, is
\* answered 400 with {error:{message}}, the message naming 'mermaid' when
\* the field is at fault; neither the renderer nor the storage is called.
C12_BadRequest ==
    /\ (RenderValidated /\ render.raw.isString /\ render.raw.syntaxError) =>
            /\ render.pc = "done" /\ render.status = 400
            /\ render.resp = [NoRenderBody EXCEPT !.error = "Invalid JSON body"]
            /\ render.renderMermaidCalls = 0 /\ render.storeFileCalls = 0
    /\ (/\ RenderValidated /\ ~render.raw.syntaxError
        /\ BlankOrNoString(render.raw.value.mermaid)) =>
            /\ render.pc = "done" /\ render.status = 400
            /\ render.resp = [NoRenderBody EXCEPT !.error = "'mermaid' is required"]
            /\ render.renderMermaidCalls = 0 /\ render.storeFileCalls = 0

\* A body whose mermaid field holds a newline and a space has been answered 400.
C12_Witness ==
    /\ HasBearerToken(render.authorization)
    /\ render.status = 400
    /\ ~render.raw.syntaxError
    /\ render.raw.value.mermaid = Str(<<"\n", " ">>)

\* ------------------------------------------------------------------ C13
\* The authenticated request with a usable mermaid field has been answered.
RenderAnswered ==
    /\ render.pc = "done" /\ HasBearerToken(render.authorization)
    /\ ~render.raw.syntaxError /\ ~BlankOrNoString(render.raw.value.mermaid)

\* The three successful answers.
MermaidAnswer ==
    /\ render.status = 200
    /\ render.resp = [NoRenderBody EXCEPT !.mermaid = render.raw.value.mermaid.chars,
                                          !.mimeType = "text/plain"]
SvgAnswer ==
    /\ render.status = 200
    /\ render.resp = [NoRenderBody EXCEPT !.svg = "svg", !.mimeType = "image/svg+xml"]
FileAnswer ==
    /\ render.status = 200
    /\ render.resp = [NoRenderBody EXCEPT !.url = "url", !.fileId = "fileId",
                                          !.mimeType = "image/png"]

\* C13 as stated: the answer to an authenticated, valid POST /render is fixed
\* by outputType: 'mermaid' gives 200 with the source text and text/plain,
\* 'svg' gives 200 with the markup and image/svg+xml, 'png' or no outputType
\* gives 200 with {url, fileId, mimeType: image/png} after exactly one call
\* of the storage; the storage is called in no other branch.
C13_Original ==
    RenderAnswered =>
        LET outputType == render.raw.value.outputType
        IN /\ outputType = Str(<<"m", "e", "r", "m", "a", "i", "d">>) =>
                    (MermaidAnswer /\ render.storeFileCalls = 0)
           /\ outputType = Str(<<"s", "v", "g">>) =>
                    (SvgAnswer /\ render.storeFileCalls = 0)
           /\ outputType \in {Str(<<"p", "n", "g">>), Undefined} =>
                    (FileAnswer /\ render.storeFileCalls = 1)

\* C13 as amended: that holds when renderMermaid resolves and, for the file
\* answer, resolves with a screenshot and storeFile resolves too.  When
\* renderMermaid or storeFile rejects the answer is 500 whatever outputType
\* is, and so it is when the screenshot is absent on the png branch, where
\* the storage is then not called.  Every outputType other than 'mermaid' and
\* 'svg' takes the png branch.  The storage is called at most once, and on
\* the png branch only.
C13_Amended ==
    /\ render.storeFileCalls <= 1
    /\ RenderAnswered =>
        LET outputType == render.raw.value.outputType
        IN /\ render.renderMermaidCalls = 1
           /\ IF render.logged
              THEN /\ render.status = 500
                   /\ render.resp = [NoRenderBody EXCEPT !.error = "Internal Server Error"]
                   /\ render.storeFileCalls = 1 =>
                        outputType \notin {Str(<<"m", "e", "r", "m", "a", "i", "d">>),
                                           Str(<<"s", "v", "g">>)}
              ELSE CASE outputType = Str(<<"m", "e", "r", "m", "a", "i", "d">>) ->
                            MermaidAnswer /\ render.storeFileCalls = 0
                     [] outputType = Str(<<"s", "v", "g">>) ->
                            SvgAnswer /\ render.storeFileCalls = 0
                     [] OTHER ->
                            IF render.screenshot = "undefined"
                            THEN /\ render.status = 500
                                 /\ render.resp.error = "Failed to generate screenshot"
                                 /\ render.storeFileCalls = 0
                            ELSE FileAnswer /\ render.storeFileCalls = 1

\* A request without outputType has been answered with the stored file.
C13_Witness ==
    /\ RenderAnswered
    /\ render.raw.value.outputType = Undefined
    /\ FileAnswer /\ render.storeFileCalls = 1

\* ------------------------------------------------------------------ C14
\* The seven routes.
Routes ==
    {"SSE-connect", "SSE-post-message", "Streamable-post", "Streamable-get",
     "Streamable-delete", "render", "unmatched"}

\* The url is the path, or the path followed by a query string.
HasPath(url, path) ==
    /\ Len(url) >= Len(path) /\ SubSeq(url, 1, Len(path)) = path
    /\ Len(url) > Len(path) => url[Len(path) + 1] = "?"

\* C14: every request with a url is given exactly one of the seven routes.
\* Method and path are matched exactly, the query string apart, except on the
\* SSE message route, which takes every POST whose url starts with /messages.
\* The unified server has the two SSE routes and the streamable server has
\* /render; both have the three streamable routes.  An unmatched request is
\* answered 404, and the router answers no matched request itself.  The
\* classification changes nothing in the registry, the transports or the servers.
C14_Router ==
    /\ [](routed.url # <<>> =>
            LET m == routed.method
                u == routed.url
                IsMessage == /\ variant = "unified" /\ m = "POST"
                             /\ Len(u) >= 2 /\ SubSeq(u, 1, 2) = <<"/", "messages">>
            IN /\ routed.route \in Routes
               /\ routed.route = "SSE-connect" <=>
                    (variant = "unified" /\ m = "GET" /\ HasPath(u, <<"/", "sse">>))
               /\ routed.route = "SSE-post-message" <=> IsMessage
               /\ routed.route = "render" <=>
                    (variant = "streamable" /\ m = "POST" /\ HasPath(u, <<"/", "render">>))
               /\ routed.route = "Streamable-post" <=>
                    (m = "POST" /\ HasPath(u, <<"/", "mcp">>))
               /\ routed.route = "Streamable-get" <=>
                    (m = "GET" /\ HasPath(u, <<"/", "mcp">>))
               /\ routed.route = "Streamable-delete" <=>
                    (m = "DELETE" /\ HasPath(u, <<"/", "mcp">>))
               /\ routed.status = (IF routed.route = "unmatched" THEN 404 ELSE 0))
    /\ [][routed' # routed => NothingCreated]_vars

\* While a session is registered, the unified server has classified a POST
\* to /messagesX as an SSE message and the streamable server has answered a
\* POST to /mcpX with 404.
C14_Witness ==
    /\ RegistryKeys # {}
    /\ routed.method = "POST"
    /\ \/ /\ variant = "unified" /\ routed.url = <<"/", "messages", "X">>
          /\ routed.route = "SSE-post-message"
       \/ /\ variant = "streamable" /\ routed.url = <<"/", "mcp", "X">>
          /\ routed.status = 404

\* ------------------------------------------------------------------ C15
\* C15: a message posted to the SSE message path is matched to its session
\* by the sessionId query parameter alone, whatever the mcp-session-id header
\* says.  Without the parameter, or with one that is not a key of the SSE
\* registry, the answer is 400; otherwise the message is forwarded to the
\* transport registered under that id, which is the transport constructed
\* with it.  The SSE registry is unchanged in every case.
C15_PostMessage ==
    [][\A p \in Req :
        (sseReqs[p].pc = "idle" /\ sseReqs'[p].kind = "post") =>
            LET id == sseReqs'[p].query
            IN /\ activeSSETransports' = activeSSETransports
               /\ \A c \in Req \ {p} : sseReqs'[c] = sseReqs[c]
               /\ IF id = NoSid \/ activeSSETransports[id] = 0
                  THEN /\ sseReqs'[p].pc = "done" /\ sseReqs'[p].status = 400
                       /\ sseReqs'[p].text # "" /\ sseReqs'[p].fwd = 0
                  ELSE /\ sseReqs'[p].pc = "handling" /\ sseReqs'[p].status = 0
                       /\ sseReqs'[p].fwd = activeSSETransports[id]
                       /\ sseReqs[sseReqs'[p].fwd].kind = "connect"
                       /\ sseReqs[sseReqs'[p].fwd].sessionId = id]_vars

\* A message whose header names another session than its sessionId
\* parameter has been forwarded to the transport the parameter names.
C15_Witness ==
    \E p \in Req :
        /\ sseReqs[p].kind = "post" /\ sseReqs[p].fwd # 0
        /\ sseReqs[sseReqs[p].fwd].sessionId = sseReqs[p].query
        /\ sseReqs[p].header \notin {NoSid, sseReqs[p].query}

\* ------------------------------------------------------------------ C16
\* Where the session of transport t stands: 0 absent (not created), 1
\* initializing (created, no id registered, no close signalled), 2 active (in
\* the registry under its id), 3 closed.
Phase(t) ==
    CASE transports[t].state = "none" -> 0
      [] transports[t].state = "new" /\ transports[t].closeSignals = 0 -> 1
      [] /\ transports[t].state = "initialized"
         /\ activeTransports[transports[t].sessionId].transport = t -> 2
      [] OTHER -> 3

\* C16: a session only moves forward through absent, initializing, active,
\* closed, and closed is final; an id that has left the registry is never
\* inserted again; an insertion never overwrites an entry, so that no two
\* transports are ever registered under one id.
C16_Lifecycle ==
    /\ [][\A t \in Req : Phase(t)' >= Phase(t)]_vars
    /\ [][\A id \in SessionIds :
            /\ (id \in UsedIds /\ activeTransports[id] = NoEntry) =>
                    activeTransports'[id] = NoEntry
            /\ (activeTransports'[id] # activeTransports[id]
                    /\ activeTransports'[id] # NoEntry) =>
                    /\ activeTransports[id] = NoEntry
                    /\ id \notin UsedIds]_vars
    /\ [](\A id \in SessionIds : activeTransports[id] # NoEntry =>
            \A t \in Req :
                transports[t].sessionId = id <=> t = activeTransports[id].transport)

\* One session was closed before its id was known and another after it had
\* been registered; both are closed now.
C16_Witness ==
    \E t1 \in Req, t2 \in Req :
        /\ transports[t1].state = "new" /\ transports[t1].closeSignals > 0
        /\ transports[t2].state = "initialized" /\ transports[t2].closeSignals > 0
        /\ Phase(t1) = 3 /\ Phase(t2) = 3

\* ------------------------------------------------------------------ C17
\* C17: an entry leaves the registry in the step in which its transport
\* signals close: no state holds the entry of a transport that has signalled
\* close, and no request is handed to a transport that has signalled close.
C17_RemovedAtClose ==
    /\ [](\A id \in SessionIds : activeTransports[id] # NoEntry =>
            transports[activeTransports[id].transport].closeSignals = 0)
    /\ [][\A r \in Req :
            (Resolves(r) /\ reqs'[r].pc = "handling") =>
                transports[reqs'[r].fwd].closeSignals = 0]_vars

\* ------------------------------------------------------------------ C18
\* C18: once the transport of a registered session has signalled close, its
\* entry is eventually removed, whether server.close() resolves or rejects.
\* A rejection is logged by onclose and never leaves it, and the entry is
\* gone as soon as no onclose of the transport is suspended any more.
C18_EventuallyRemoved ==
    /\ [](\A t \in Req :
            /\ ~transports[t].threw
            /\ servers[t].closeRejected => transports[t].logged
            /\ (/\ transports[t].state = "initialized"
                /\ transports[t].closeSignals > 0
                /\ transports[t].closing = 0) => ~Registered(transports[t].sessionId))
    /\ \A t \in Req :
            transports[t].closing > 0 ~> ~Registered(transports[t].sessionId)

\* The server.close() of a session rejected; the failure is logged and the
\* entry is gone.
C18_Witness ==
    \E t \in Req :
        /\ transports[t].state = "initialized"
        /\ servers[t].closeRejected /\ transports[t].logged
        /\ transports[t].closing = 0
        /\ ~Registered(transports[t].sessionId)

\* ------------------------------------------------------------------ C19
\* The transports that exist and have not been closed: the streamable ones
\* that have signalled no close, the SSE ones whose response is open.
Remaining ==
    {<<"streamable", t>> : t \in {x \in Req :
        transports[x].state # "none" /\ transports[x].closeSignals = 0}}
    \cup {<<"sse", c>> : c \in {x \in Req :
        sseReqs[x].server = "created" /\ ~sseReqs[x].closed /\ ~sseReqs[x].ended}}

\* C19: the cleanup sweep calls close() on every remaining transport, active
\* or still initializing, of the SSE and of the streamable sessions, going on
\* after a close() that throws; once it has run, both registries are
\* eventually empty.
C19_Sweep ==
    /\ [][(~sweep.ran /\ sweep'.ran) => Remaining \subseteq sweep'.closeCalled]_vars
    /\ sweep.ran ~> (RegistryKeys = {} /\ \A id \in SessionIds : activeSSETransports[id] = 0)

\* ------------------------------------------------------------------ C20
\* C20: when a transport has signalled close, whether its session was active
\* or still initializing, close() has been called on the server created for
\* it: no created server is left unclosed once its transport has closed.
C20_ServerClosed ==
    \A t \in Req :
        (transports[t].closeSignals > 0 /\ servers[t].state = "created") =>
            servers[t].closes >= 1
\* ---------------------------------------------------------------------- C21
\* C21: on the initialize path the hooks are wired first, then a fresh server
\* is connected to the transport exactly once and that connection has
\* completed, and only then is the request forwarded; no server is connected
\* twice and a reused session triggers no connect.
C21_ConnectedThenForwarded ==
    /\ \A r \in Req :
          (reqs[r].branch = "init" /\ reqs[r].fwd # 0) =>
             /\ transports[reqs[r].fwd].state # "none"
             /\ servers[reqs[r].fwd].connects = 1
             /\ servers[reqs[r].fwd].connect = "resolved"
    /\ \A s \in Req : servers[s].connects <= 1
    /\ \A r \in Req : reqs[r].branch = "reuse" => servers[r].connects = 0

\* ---------------------------------------------------------------------- C22
\* The step inserts, for a transport built by an initialize request that is
\* being handled, the entry of the id the transport just drew.
RegistryInsertion ==
    \E r \in Req :
       /\ reqs[r].branch = "init" /\ reqs[r].pc = "handling"
       /\ transports[r].state = "new" /\ transports'[r].state = "initialized"
       /\ activeTransports' =
            [activeTransports EXCEPT ![transports'[r].sessionId] =
                [server |-> r, transport |-> r]]

\* The step is the resumption of an onclose of transport t and removes the
\* entry of t.
RegistryDeletion ==
    \E t \in Req :
       /\ transports[t].closing > 0
       /\ transports'[t].closing = transports[t].closing - 1
       /\ activeTransports[transports[t].sessionId].transport = t
       /\ activeTransports' =
            [activeTransports EXCEPT ![transports[t].sessionId] = NoEntry]

\* C22: the streamable registry changes at two points only, the insertion in
\* onsessioninitialized of a transport the controller just created and the
\* deletion in that transport's onclose; forwarding or rejecting a request,
\* handling /render and running the cleanup sweep leave it unchanged.
C22_RegistryFrame ==
    [][ /\ activeTransports' # activeTransports =>
            RegistryInsertion \/ RegistryDeletion
        /\ (reqs' # reqs \/ render' # render \/ sweep' # sweep) =>
            activeTransports' = activeTransports ]_vars

\* A session is registered, a request was forwarded to a known session,
\* /render was answered and the sweep has run over a non-empty registry.
C22_Witness ==
    /\ \E id \in SessionIds : Registered(id)
    /\ \E r \in Req : reqs[r].branch = "reuse" /\ reqs[r].fwd # 0
    /\ render.pc = "done"
    /\ sweep.ran /\ sweep.closeCalled # {}

\* ---------------------------------------------------------------------- C23
\* The step is the arrival of a GET on the SSE endpoint, in slot c.
SseConnects(c) == sseReqs[c].pc = "idle" /\ sseReqs'[c].kind = "connect"

\* In the step the handler of c has created a server and a transport with an
\* id of its own, registered the transport and started to connect.
SseRegistered(c) ==
    /\ sseReqs'[c].server = "created"
    /\ sseReqs'[c].sessionId \notin UsedSseIds \cup {NoSid}
    /\ activeSSETransports' =
            [activeSSETransports EXCEPT ![sseReqs'[c].sessionId] = c]
    /\ sseReqs'[c].pc = "connect"

\* The greeting is sent after the connect has resolved and not otherwise, and
\* a message posted with the id of a registered transport is forwarded to it,
\* whatever the state of the connect.
SseOrder ==
    /\ \A c \in Req :
          /\ (sseReqs'[c].pc = "send" /\ sseReqs[c].pc # "send") =>
                sseReqs[c].pc = "connect"
          /\ (sseReqs'[c].pc = "open" /\ sseReqs[c].pc # "open") =>
                sseReqs[c].pc = "send"
    /\ \A p \in Req, c \in Req :
          ( /\ sseReqs[p].pc = "idle" /\ sseReqs'[p].kind = "post"
            /\ sseReqs'[p].query # NoSid
            /\ activeSSETransports[sseReqs'[p].query] = c ) =>
                sseReqs'[p].pc = "handling" /\ sseReqs'[p].fwd = c

C24_SseTeardown ==
    /\ [](\A c \in Req : sseReqs[c].closed =>
            /\ sseReqs[c].serverCloses = 1
            /\ sseReqs[c].closing = 0 =>
                    activeSSETransports[sseReqs[c].sessionId] = 0)
    /\ \A c \in Req :
          sseReqs[c].closed ~>
            (sseReqs[c].closed /\ activeSSETransports[sseReqs[c].sessionId] = 0)
    /\ [][\A p \in Req, c \in Req :
            ( /\ sseReqs[c].closed /\ sseReqs[c].closing = 0
              /\ sseReqs[p].pc = "idle" /\ sseReqs'[p].kind = "post"
              /\ sseReqs'[p].query = sseReqs[c].sessionId ) =>
                /\ sseReqs'[p].status = 400
                /\ sseReqs'[p].text = "No active transport"
                /\ sseReqs'[p].fwd = 0]_vars

\* The stream of a session closed while its server was still connecting and
\* server.close() rejected; the entry is gone and a message posted with the
\* id was answered 400.
C24_Witness ==
    \E c \in Req, p \in Req :
        /\ sseReqs[c].closed /\ sseReqs[c].closing = 0
        /\ sseReqs[c].pc = "connect"
        /\ "Error closing SSE server" \in sseReqs[c].logged
        /\ activeSSETransports[sseReqs[c].sessionId] = 0
        /\ sseReqs[p].kind = "post" /\ sseReqs[p].query = sseReqs[c].sessionId
        /\ sseReqs[p].status = 400

\* ---------------------------------------------------------------------- C25
\* C25: an exception of a collaborator is caught in the handler that called
\* it and answered with 500, on every route: no exception leaves the handler
\* of a request, and a request whose transport failed is answered 500.
C25_AllCaught ==
    \A r \in Req :
        /\ ~reqs[r].escaped
        /\ (reqs[r].writer = "controller" /\ reqs[r].fwd # 0) => reqs[r].status = 500

\* ---------------------------------------------------------------------- C26
\* C26: on the png branch of /render a screenshot that is absent or empty is
\* answered 500 and storage is not called; an exception of the renderer or
\* of storage is answered 500 "Internal Server Error"; and no outcome of
\* /render changes the session registry.
C26_ScreenshotRequired ==
    /\ ( /\ outputBranch(render.raw.value.outputType) = "png"
         /\ render.screenshot \in {"undefined", "emptyBuffer"} ) =>
            /\ render.storeFileCalls = 0
            /\ render.status = 500
    /\ render.logged =>
            /\ render.status = 500
            /\ render.resp = RenderError("Internal Server Error")
    /\ activeTransports = [id \in SessionIds |-> NoEntry]

\* ---------------------------------------------------------------------- C27
\* C27: a request that was forwarded to a transport is answered by that
\* transport alone: once it has forwarded the request the controller writes
\* no response of its own.
C27_SingleWriter ==
    \A r \in Req : reqs[r].fwd # 0 => reqs[r].writer \in {"none", "transport"}

\* ---------------------------------------------------------------------- C28
\* C28: on the png branch the credential of the upload is the bearer token
\* of the request: the upload's Authorization value is "Bearer " followed by
\* that token, unmodified.
C28_TokenIsCredential ==
    render.storeFileCalls > 0 =>
        render.uploadAuthorization = Bearer \o render.token

\* ---------------------------------------------------------------------- C29
\* createServer threw while request r was on the initialize branch: the
\* branch was taken and no server exists.
CreateServerFailed(r) == reqs[r].branch = "init" /\ servers[r].state = "none"

\* C29: when createServer fails on the initialize branch the request is
\* answered by the controller with an error status (500; in the unified
\* server the status of a thrown Response), it is never forwarded to the new
\* transport, the server is never connected, and the transport never gets
\* a session id or a registry entry.
C29_CreateServerFailure ==
    \A r \in Req : CreateServerFailed(r) =>
        /\ reqs[r].pc = "done" /\ reqs[r].writer = "controller"
        /\ reqs[r].status \in {500, ThrownStatus}
        /\ variant = "streamable" => reqs[r].status = 500
        /\ reqs[r].fwd = 0
        /\ servers[r].connects = 0 /\ servers[r].connect = "none"
        /\ transports[r].state = "new" /\ transports[r].sessionId = NoSid
        /\ \A id \in SessionIds : activeTransports[id].transport # r

\* In the unified server createServer threw a Response for one initialize
\* request, answered with its status, while another session is registered.
C29_Witness ==
    \E r \in Req, id \in SessionIds :
        /\ CreateServerFailed(r)
        /\ reqs[r].status = ThrownStatus
        /\ Registered(id)

====
